---- MODULE Spec2Model ----
(***************************************************************************)
(* Stepdown-rule analyzer and fixer (graffhyrum/stepdown-rule).            *)
(*                                                                         *)
(* A source file is a sequence of statements.  A statement is a record     *)
(*   [kind, decls, calls] with kind in                                     *)
(*     "import"  ImportDeclaration / ImportEqualsDeclaration               *)
(*     "export"  ExportDeclaration                                         *)
(*     "fn"      named FunctionDeclaration (one declarator, init "fn")     *)
(*     "var"     VariableStatement (one declarator per declared variable)  *)
(*     "expr"    any other statement (expression statement, return, ...)   *)
(*   calls: the bare-identifier call expressions that sit directly in the  *)
(*          statement (outside every function literal), in text order;     *)
(*   decls: declarators [name, init, body] with init in                    *)
(*     "fn"    arrow function / function expression, block body = body     *)
(*     "call"  call expression with a function-literal argument whose      *)
(*             block body = body (for "expr": the callback of the call)    *)
(*     "val"   any other initializer (body = <<>>)                         *)
(* Source text is laid out one statement per line, so the line of a        *)
(* statement is its preorder index in the file.                            *)
(***************************************************************************)
EXTENDS Integers, Sequences, FiniteSets, TLC

Null == "null"

MissingOrder == 999

(***************************************************************************)
(* Generic sequence helpers (JavaScript array/Map/Set primitives).         *)
(***************************************************************************)
Range(s) == {s[i] : i \in DOMAIN s}

Reverse(s) == [i \in 1..Len(s) |-> s[Len(s) + 1 - i]]

RECURSIVE Flatten(_)
Flatten(ss) == IF ss = <<>> THEN <<>> ELSE Head(ss) \o Flatten(Tail(ss))

\* [...new Set(xs)]: first occurrence of each element, in order
Dedupe(s) == SelectSeq([i \in 1..Len(s) |-> IF \E j \in 1..(i-1) : s[j] = s[i]
                                             THEN Null ELSE s[i]],
                       LAMBDA x : x # Null)

\* index of the first / last occurrence of x in s (0 if absent)
FirstIndex(s, x) == IF x \in Range(s) THEN CHOOSE i \in DOMAIN s : s[i] = x /\ \A j \in 1..(i-1) : s[j] # x ELSE 0

OrderOf(so, n) == IF n \in DOMAIN so THEN so[n] ELSE MissingOrder

\* Array.prototype.sort with comparator (a,b) => order(a) - order(b): stable
SortByOrder(s, so) ==
  LET rank(i) == Cardinality({j \in DOMAIN s :
                     \/ OrderOf(so, s[j]) < OrderOf(so, s[i])
                     \/ OrderOf(so, s[j]) = OrderOf(so, s[i]) /\ j < i}) + 1
  IN [r \in 1..Len(s) |-> s[CHOOSE i \in DOMAIN s : rank(i) = r]]

\* A JavaScript Map<string, string[]>: keys in insertion order plus values
EmptyMap == [keys |-> <<>>, val |-> <<>>]

MapHas(m, k) == k \in Range(m.keys)

MapGet(m, k) == IF MapHas(m, k) THEN m.val[k] ELSE <<>>

MapSet(m, k, v) ==
  IF MapHas(m, k)
  THEN [keys |-> m.keys, val |-> [x \in Range(m.keys) |-> IF x = k THEN v ELSE m.val[x]]]
  ELSE [keys |-> Append(m.keys, k),
        val |-> [x \in Range(m.keys) \cup {k} |-> IF x = k THEN v ELSE m.val[x]]]

MapDelete(m, ks) ==
  LET keep == SelectSeq(m.keys, LAMBDA x : x \notin ks)
  IN [keys |-> keep, val |-> [x \in Range(keep) |-> m.val[x]]]

(***************************************************************************)
(* Layout: line numbers (getPosition: 1-based line of node.getStart()).    *)
(***************************************************************************)
RECURSIVE StmtSize(_), DeclsSize(_), SeqSize(_)
StmtSize(s) == 1 + DeclsSize(s.decls)

DeclsSize(ds) == IF ds = <<>> THEN 0 ELSE SeqSize(ds[1].body) + DeclsSize(Tail(ds))

SeqSize(ss) == IF ss = <<>> THEN 0 ELSE StmtSize(ss[1]) + SeqSize(Tail(ss))

\* line of statement i of a block whose first statement is on line base
LineAt(ss, base, i) == base + SeqSize(SubSeq(ss, 1, i - 1))

\* first body line of declarator k of a statement on line `line`
BodyBase(s, line, k) == line + 1 + DeclsSize(SubSeq(s.decls, 1, k - 1))

IsFnDecl(d) == d.init = "fn"

FnDecls(s) == SelectSeq(s.decls, IsFnDecl)

(***************************************************************************)
(* analyzer.ts: extractFunctions                                           *)
(***************************************************************************)
FunctionInfo(name, line, parent, isDecl) ==
  [name |-> name, line |-> line, parentFunction |-> parent, declaration |-> isDecl]

\* variant: name of the last function-bound declarator
handleVariableStatementLast(s) ==
  IF FnDecls(s) = <<>> THEN Null ELSE FnDecls(s)[Len(FnDecls(s))].name

\* handleVariableStatement: name of the first function-bound declarator
handleVariableStatement(s) ==
  IF FnDecls(s) = <<>> THEN Null ELSE FnDecls(s)[1].name

RECURSIVE extractStmt(_,_,_), extractDecls(_,_,_,_), extractSeq(_,_,_)
extractStmt(s, parent, line) ==
  IF s.kind = "fn"
  THEN <<FunctionInfo(s.decls[1].name, line, parent, TRUE)>>
         \o extractDecls(s, 1, s.decls[1].name, line)
  ELSE IF s.kind = "var"
  THEN LET first == handleVariableStatement(s)
           own == [i \in 1..Len(FnDecls(s)) |->
                     FunctionInfo(FnDecls(s)[i].name, line, parent, FALSE)]
       IN own \o extractDecls(s, 1, IF first # Null THEN first ELSE parent, line)
  ELSE extractDecls(s, 1, parent, line)

extractDecls(s, k, parent, line) ==
  IF k > Len(s.decls) THEN <<>>
  ELSE extractSeq(s.decls[k].body, parent, BodyBase(s, line, k))
         \o extractDecls(s, k + 1, parent, line)

extractSeq(ss, parent, base) ==
  IF ss = <<>> THEN <<>>
  ELSE extractStmt(ss[1], parent, base) \o extractSeq(Tail(ss), parent, base + StmtSize(ss[1]))

extractFunctions(file) == extractSeq(file, Null, 1)

(***************************************************************************)
(* analyzer.ts: buildCallGraph / findContainingFunction                    *)
(***************************************************************************)
\* every call site of the file in text order, as <<container, callee>>
RECURSIVE callsOfStmt(_,_), callsOfDecls(_,_,_), callsOfSeq(_,_)
\* variant: a call is attributed to the outermost enclosing function entity
callsOfDeclsOutermost(s, k, container) ==
  IF k > Len(s.decls) THEN <<>>
  ELSE callsOfSeq(s.decls[k].body,
                  IF container # Null THEN container
                  ELSE IF s.decls[k].init = "fn" THEN s.decls[k].name ELSE container)
         \o callsOfDecls(s, k + 1, container)

callsOfStmt(s, container) ==
  [i \in 1..Len(s.calls) |-> <<container, s.calls[i]>>] \o callsOfDecls(s, 1, container)

callsOfDecls(s, k, container) ==
  IF k > Len(s.decls) THEN <<>>
  ELSE callsOfSeq(s.decls[k].body,
                  IF s.decls[k].init = "fn" THEN s.decls[k].name ELSE container)
         \o callsOfDecls(s, k + 1, container)

callsOfSeq(ss, container) ==
  IF ss = <<>> THEN <<>>
  ELSE callsOfStmt(ss[1], container) \o callsOfSeq(Tail(ss), container)

buildCallGraph(functions, file) ==
  LET names == Dedupe([i \in 1..Len(functions) |-> functions[i].name])
      sites == callsOfSeq(file, Null)
      of(n) == SelectSeq(sites, LAMBDA p : p[1] = n /\ p[2] \in Range(names))
  IN [keys |-> names,
      val |-> [n \in Range(names) |-> [i \in 1..Len(of(n)) |-> of(n)[i][2]]]]

callGraphToDependencyMap(callGraph) ==
  [keys |-> callGraph.keys,
   val |-> [n \in Range(callGraph.keys) |-> Dedupe(callGraph.val[n])]]

(***************************************************************************)
(* analyzer.ts: findViolations / findViolationsForFunction                 *)
(***************************************************************************)
FindByName(functions, n) == functions[FirstIndex([i \in 1..Len(functions) |-> functions[i].name], n)]

findViolationsForFunction(func, functions, callGraph) ==
  LET callSites == MapGet(callGraph, func.name)
      hit(c) == /\ c # func.name
                /\ FindByName(functions, c).parentFunction = Null
                /\ FindByName(functions, c).line < func.line
  IN [i \in 1..Len(SelectSeq(callSites, hit)) |->
        [function |-> func.name, dependency |-> SelectSeq(callSites, hit)[i],
         line |-> func.line]]

findViolations(functions, callGraph) ==
  LET top == SelectSeq(functions, LAMBDA f : f.parentFunction = Null)
  IN Flatten([i \in 1..Len(top) |-> findViolationsForFunction(top[i], functions, callGraph)])

(***************************************************************************)
(* analyzer.ts: detectCircularDependencies / dfsDetectCycle                *)
(***************************************************************************)
extractCycle(funcName, context) ==
  LET cycleStart == FirstIndex(context.path, funcName)
      from == IF cycleStart = 0 THEN Len(context.path) ELSE cycleStart
  IN SubSeq(context.path, from, Len(context.path)) \o <<funcName>>

isValidCycle(cycle) == Len(cycle) > 2 \/ (Len(cycle) = 2 /\ cycle[1] # cycle[2])

RECURSIVE dfsDetectCycle(_,_,_), dfsCallSites(_,_,_,_)
dfsDetectCycle(funcName, context, callGraph) ==
  IF funcName \in context.recursionStack
  THEN LET cycle == extractCycle(funcName, context)
       IN [context |-> IF isValidCycle(cycle)
                       THEN [context EXCEPT !.cycles = Append(@, cycle)]
                       ELSE context,
           found |-> TRUE]
  ELSE IF funcName \in context.visited
  THEN [context |-> context, found |-> FALSE]
  ELSE LET entered == [context EXCEPT !.visited = @ \cup {funcName},
                                      !.recursionStack = @ \cup {funcName},
                                      !.path = Append(@, funcName)]
           r == dfsCallSites(MapGet(callGraph, funcName), 1, entered, callGraph)
       IN IF r.found THEN r
          ELSE [context |-> [r.context EXCEPT !.recursionStack = @ \ {funcName},
                                              !.path = SubSeq(@, 1, Len(@) - 1)],
                found |-> FALSE]

dfsCallSites(callSites, i, context, callGraph) ==
  IF i > Len(callSites) THEN [context |-> context, found |-> FALSE]
  ELSE LET r == dfsDetectCycle(callSites[i], context, callGraph)
       IN IF r.found THEN r ELSE dfsCallSites(callSites, i + 1, r.context, callGraph)

RECURSIVE detectLoop(_,_,_,_)
detectLoop(functions, i, context, callGraph) ==
  IF i > Len(functions) THEN context
  ELSE detectLoop(functions, i + 1,
                  IF functions[i].name \in context.visited THEN context
                  ELSE dfsDetectCycle(functions[i].name, context, callGraph).context,
                  callGraph)

detectCircularDependencies(functions, callGraph) ==
  detectLoop(functions, 1,
             [cycles |-> <<>>, visited |-> {}, recursionStack |-> {}, path |-> <<>>],
             callGraph).cycles

\* variant: drops a violation only when its callee is in a cycle
filterOutCircularCallees(violations, circularDependencies) ==
  LET functionsInCycles == UNION {Range(circularDependencies[i]) : i \in DOMAIN circularDependencies}
  IN SelectSeq(violations, LAMBDA v : v.dependency \notin functionsInCycles)

filterOutCircularViolations(violations, circularDependencies) ==
  LET functionsInCycles == UNION {Range(circularDependencies[i]) : i \in DOMAIN circularDependencies}
  IN SelectSeq(violations, LAMBDA v : ~(v.function \in functionsInCycles
                                        \/ v.dependency \in functionsInCycles))

(***************************************************************************)
(* analyzer.ts: findNestedFunctionViolations                               *)
(***************************************************************************)
\* new Map(functions.map(f => [f.name, f])).get(n): the last entity named n
functionMapGet(functions, n) ==
  functions[CHOOSE i \in DOMAIN functions :
              functions[i].name = n /\ \A j \in DOMAIN functions : functions[j].name = n => j <= i]

IsLogicStatement(s) ==
  /\ s.kind # "fn"
  /\ ~(s.kind = "var" /\ \A k \in DOMAIN s.decls : s.decls[k].init = "fn")

findLastLogicStatementLine(body, base) ==
  LET lines == {LineAt(body, base, i) : i \in {j \in DOMAIN body : IsLogicStatement(body[j])}}
  IN IF lines = {} THEN 0 ELSE CHOOSE m \in lines : \A x \in lines : x <= m

RECURSIVE findIdentifierInStmt(_,_), findIdentifierExcludingDefinitions(_,_)
findIdentifierInStmt(s, name) ==
  IF \/ s.kind = "fn" /\ s.decls[1].name = name
     \/ s.kind = "var" /\ \E k \in DOMAIN s.decls : s.decls[k].name = name
  THEN FALSE
  ELSE \/ name \in Range(s.calls)
       \/ \E k \in DOMAIN s.decls : findIdentifierExcludingDefinitions(s.decls[k].body, name)

findIdentifierExcludingDefinitions(body, name) ==
  \E i \in DOMAIN body : findIdentifierInStmt(body[i], name)

\* findFunctionNode: the function node whose start offset is the entity's
\* position.start (the start of its declaring statement); only a
\* FunctionDeclaration starts where its statement starts
RECURSIVE findFunctionNode(_,_,_)
findFunctionNode(ss, base, line) ==
  IF ss = <<>> THEN [found |-> FALSE, body |-> <<>>]
  ELSE IF line = base
  THEN IF ss[1].kind = "fn" THEN [found |-> TRUE, body |-> ss[1].decls[1].body]
       ELSE [found |-> FALSE, body |-> <<>>]
  ELSE IF line < base + StmtSize(ss[1])
  THEN LET k == CHOOSE k \in DOMAIN ss[1].decls :
                  /\ BodyBase(ss[1], base, k) <= line
                  /\ line < BodyBase(ss[1], base, k) + SeqSize(ss[1].decls[k].body)
       IN findFunctionNode(ss[1].decls[k].body, BodyBase(ss[1], base, k), line)
  ELSE findFunctionNode(Tail(ss), base + StmtSize(ss[1]), line)

isReferencedInFunctionBody(nestedName, parentInfo, file) ==
  LET functionNode == findFunctionNode(file, 1, parentInfo.line)
  IN /\ functionNode.found
     /\ findIdentifierExcludingDefinitions(functionNode.body, nestedName)

checkAndAddViolation(nestedLine, nestedName, parentInfo, lastLogicLine, file) ==
  IF nestedLine < lastLogicLine /\ ~isReferencedInFunctionBody(nestedName, parentInfo, file)
  THEN <<[parent |-> parentInfo.name, nested |-> nestedName]>>
  ELSE <<>>

RECURSIVE checkFunctionBodyAndProcess(_,_,_,_,_), processStatements(_,_,_,_,_,_,_)
checkFunctionBodyAndProcess(body, base, funcInfo, functions, file) ==
  LET lastLogicLine == findLastLogicStatementLine(body, base)
  IN IF lastLogicLine = 0 THEN <<>>
     ELSE processStatements(body, base, 1, funcInfo, lastLogicLine, functions, file)

processStatements(body, base, i, parentInfo, lastLogicLine, functions, file) ==
  IF i > Len(body) THEN <<>>
  ELSE LET s == body[i]
           line == LineAt(body, base, i)
           perDecl(k) ==
             IF s.decls[k].init = "fn"
             THEN checkAndAddViolation(line, s.decls[k].name, parentInfo, lastLogicLine, file)
                    \o checkFunctionBodyAndProcess(s.decls[k].body, BodyBase(s, line, k),
                                                   functionMapGet(functions, s.decls[k].name),
                                                   functions, file)
             ELSE <<>>
           here == IF s.kind \in {"fn", "var"}
                   THEN Flatten([k \in 1..Len(s.decls) |-> perDecl(k)])
                   ELSE <<>>
       IN here \o processStatements(body, base, i + 1, parentInfo, lastLogicLine, functions, file)

RECURSIVE visit(_,_,_,_)
visit(ss, base, functions, file) ==
  IF ss = <<>> THEN <<>>
  ELSE LET s == ss[1]
           own(k) == IF s.kind \in {"fn", "var"} /\ s.decls[k].init = "fn"
                     THEN checkFunctionBodyAndProcess(s.decls[k].body, BodyBase(s, base, k),
                                                      functionMapGet(functions, s.decls[k].name),
                                                      functions, file)
                     ELSE <<>>
           child(k) == visit(s.decls[k].body, BodyBase(s, base, k), functions, file)
       IN Flatten([k \in 1..Len(s.decls) |-> own(k)])
            \o Flatten([k \in 1..Len(s.decls) |-> child(k)])
            \o visit(Tail(ss), base + StmtSize(s), functions, file)

findNestedFunctionViolations(file, functions) == visit(file, 1, functions, file)

(***************************************************************************)
(* analyzer.ts: analyzeParsedFile, buildRuleContext, rules                 *)
(***************************************************************************)
buildRuleContext(file) ==
  LET functions == extractFunctions(file)
      callGraph == buildCallGraph(functions, file)
  IN [file |-> file, functions |-> functions, callGraph |-> callGraph,
      dependencyGraph |-> callGraphToDependencyMap(callGraph)]

findStepdownViolations(ctx) ==
  filterOutCircularViolations(findViolations(ctx.functions, ctx.callGraph),
                              detectCircularDependencies(ctx.functions, ctx.callGraph))

findNestedViolations(ctx) == findNestedFunctionViolations(ctx.file, ctx.functions)

analyzeParsedFile(file) ==
  LET ctx == buildRuleContext(file)
      circular == detectCircularDependencies(ctx.functions, ctx.callGraph)
  IN [violations |-> filterOutCircularViolations(findViolations(ctx.functions, ctx.callGraph), circular),
      nestedFunctionViolations |-> findNestedFunctionViolations(file, ctx.functions),
      circularDependencies |-> circular,
      totalFunctions |-> Len(ctx.functions),
      dependencyGraph |-> ctx.dependencyGraph,
      errors |-> <<>>]

(***************************************************************************)
(* graph-algorithms.ts: topologicalSort / findAndRemoveLeafFunctions       *)
(***************************************************************************)
RECURSIVE visitDependencyNode(_,_,_,_), visitDeps(_,_,_,_,_)
\* variant: a node that was already emitted is visited again
visitDependencyNodeRevisits(name, context, dependencies, sourceOrder) ==
  IF name \in context.temp THEN context
  ELSE LET orderedDeps == SortByOrder(MapGet(dependencies, name), sourceOrder)
           after == visitDeps(orderedDeps, 1, [context EXCEPT !.temp = @ \cup {name}],
                              dependencies, sourceOrder)
       IN [temp |-> after.temp \ {name},
           visited |-> after.visited \cup {name},
           result |-> Append(after.result, name)]

visitDependencyNode(name, context, dependencies, sourceOrder) ==
  IF name \in context.temp THEN context
  ELSE IF name \in context.visited THEN context
  ELSE LET orderedDeps == SortByOrder(MapGet(dependencies, name), sourceOrder)
           after == visitDeps(orderedDeps, 1, [context EXCEPT !.temp = @ \cup {name}],
                              dependencies, sourceOrder)
       IN [temp |-> after.temp \ {name},
           visited |-> after.visited \cup {name},
           result |-> Append(after.result, name)]

visitDeps(deps, i, context, dependencies, sourceOrder) ==
  IF i > Len(deps) THEN context
  ELSE visitDeps(deps, i + 1,
                 IF MapHas(dependencies, deps[i])
                 THEN visitDependencyNode(deps[i], context, dependencies, sourceOrder)
                 ELSE context,
                 dependencies, sourceOrder)

RECURSIVE sortLoop(_,_,_,_,_)
sortLoop(names, i, context, dependencies, sourceOrder) ==
  IF i > Len(names) THEN context
  ELSE sortLoop(names, i + 1,
                IF names[i] \in context.visited THEN context
                ELSE visitDependencyNode(names[i], context, dependencies, sourceOrder),
                dependencies, sourceOrder)

topologicalSort(dependencies, sourceOrder) ==
  LET names == SortByOrder(dependencies.keys, sourceOrder)
      done == sortLoop(names, 1, [temp |-> {}, visited |-> {}, result |-> <<>>],
                       dependencies, sourceOrder)
  IN done.result \o SelectSeq(names, LAMBDA n : n \notin done.visited)

\* returns the leaf names and the dependency map after the deletions
findAndRemoveLeafFunctions(dependencies, sourceOrder) ==
  LET leafNames == SelectSeq(dependencies.keys, LAMBDA n : Len(dependencies.val[n]) = 0)
  IN [leafNames |-> SortByOrder(leafNames, sourceOrder),
      dependencies |-> MapDelete(dependencies, Range(leafNames))]

(***************************************************************************)
(* ast-node-visitors.ts / ast-graph-builder.ts                             *)
(***************************************************************************)
isFunctionStatement(s) ==
  \/ s.kind = "fn"
  \/ s.kind = "var" /\ \E k \in DOMAIN s.decls : s.decls[k].init = "fn"

categorizeNodes(file) ==
  [imports |-> SelectSeq(file, LAMBDA s : s.kind = "import"),
   exports |-> SelectSeq(file, LAMBDA s : s.kind = "export"),
   functions |-> SelectSeq(file, LAMBDA s : s.kind \notin {"import", "export"} /\ isFunctionStatement(s)),
   other |-> SelectSeq(file, LAMBDA s : s.kind \notin {"import", "export"} /\ ~isFunctionStatement(s))]

\* variant: the other statements ahead of the functions
reconstructOtherFirst(categorized, reorderedFunctions) ==
  categorized.imports \o categorized.other \o reorderedFunctions \o categorized.exports

reconstructStatements(categorized, reorderedFunctions) ==
  categorized.imports \o reorderedFunctions \o categorized.other \o categorized.exports

\* name of a FunctionDeclaration, or of the FIRST declarator of a VariableStatement
extractFunctionName(s) ==
  IF s.kind \in {"fn", "var"} THEN s.decls[1].name ELSE Null

\* every call in the subtree of a statement, in text order
RECURSIVE allCallsOfStmt(_), allCallsOfSeq(_)
allCallsOfStmt(s) ==
  s.calls \o Flatten([k \in 1..Len(s.decls) |-> allCallsOfSeq(s.decls[k].body)])

allCallsOfSeq(ss) == IF ss = <<>> THEN <<>> ELSE allCallsOfStmt(ss[1]) \o allCallsOfSeq(Tail(ss))

extractDependenciesFor(s, functionNames) ==
  Dedupe(SelectSeq(allCallsOfStmt(s), LAMBDA c : c \in functionNames))

RECURSIVE buildDepsLoop(_,_,_,_)
buildDepsLoop(stmts, i, functionNames, acc) ==
  IF i > Len(stmts) THEN acc
  ELSE buildDepsLoop(stmts, i + 1, functionNames,
         IF extractFunctionName(stmts[i]) # Null
         THEN MapSet(acc, extractFunctionName(stmts[i]),
                     extractDependenciesFor(stmts[i], functionNames))
         ELSE acc)

buildDependencyGraph(functions) ==
  buildDepsLoop(functions, 1,
                {extractFunctionName(functions[i]) : i \in DOMAIN functions} \ {Null},
                EmptyMap)

(***************************************************************************)
(* fixer.ts: reorderFunctions and the top-level rewrite                    *)
(***************************************************************************)
\* Map built by a loop of set(name, i): the last statement of a name wins
LastIndexOfName(stmts, n) ==
  CHOOSE i \in DOMAIN stmts :
    extractFunctionName(stmts[i]) = n
    /\ \A j \in DOMAIN stmts : extractFunctionName(stmts[j]) = n => j <= i

SourceOrderOf(stmts) ==
  [n \in {extractFunctionName(stmts[i]) : i \in DOMAIN stmts} \ {Null} |->
     LastIndexOfName(stmts, n) - 1]

\* names.map(n => nameToFunc.get(n)).filter(f => f !== undefined)
LookupAll(names, stmts) ==
  LET so == SourceOrderOf(stmts)
      known == SelectSeq(names, LAMBDA n : n \in DOMAIN so)
  IN [i \in 1..Len(known) |-> stmts[so[known[i]] + 1]]

\* variant: the topological order is not reversed (callees first)
reorderFunctionsUnreversed(functions, dependencies) ==
  LET sourceOrder == SourceOrderOf(functions)
      leaves == findAndRemoveLeafFunctions(dependencies, sourceOrder)
      sorted == topologicalSort(leaves.dependencies, sourceOrder)
  IN [functions |-> LookupAll(sorted, functions) \o LookupAll(leaves.leafNames, functions),
      dependencies |-> leaves.dependencies]

reorderFunctions(functions, dependencies) ==
  LET sourceOrder == SourceOrderOf(functions)
      leaves == findAndRemoveLeafFunctions(dependencies, sourceOrder)
      sorted == Reverse(topologicalSort(leaves.dependencies, sourceOrder))
  IN [functions |-> LookupAll(sorted, functions) \o LookupAll(leaves.leafNames, functions),
      dependencies |-> leaves.dependencies]

reorderTopLevelOnly(file, dependencyGraph) ==
  LET categorized == categorizeNodes(file)
  IN reconstructStatements(categorized, reorderFunctions(categorized.functions, dependencyGraph).functions)

(***************************************************************************)
(* fixer.ts: nested blocks                                                 *)
(***************************************************************************)
extractStatementFunctionName(s) ==
  IF s.kind = "fn" THEN s.decls[1].name
  ELSE IF s.kind = "var" /\ s.decls[1].init = "fn" THEN s.decls[1].name
  ELSE Null

\* returns [changed, body]; changed = FALSE stands for the null result
reorderBlockStatements(body) ==
  LET funcStatements == SelectSeq(body, LAMBDA s : extractStatementFunctionName(s) # Null)
      nameOf(i) == extractStatementFunctionName(funcStatements[i])
      functionNames == {nameOf(i) : i \in DOMAIN funcStatements}
      RECURSIVE depsLoop(_,_)
      depsLoop(i, acc) ==
        IF i > Len(funcStatements) THEN acc
        ELSE depsLoop(i + 1, MapSet(acc, nameOf(i),
                                    extractDependenciesFor(funcStatements[i], functionNames)))
      dependencies == depsLoop(1, EmptyMap)
      blockSourceOrder ==
        [n \in functionNames |->
           (CHOOSE i \in DOMAIN funcStatements :
              nameOf(i) = n /\ \A j \in DOMAIN funcStatements : nameOf(j) = n => j <= i) - 1]
      sorted == Reverse(topologicalSort(dependencies, blockSourceOrder))
      firstOf(n) == funcStatements[CHOOSE i \in DOMAIN funcStatements :
                       nameOf(i) = n /\ \A j \in 1..(i-1) : nameOf(j) # n]
      reorderedStmts == [i \in 1..Len(sorted) |-> firstOf(sorted[i])]
      otherStatements == SelectSeq(body, LAMBDA s : extractStatementFunctionName(s) = Null)
      newStatements == reorderedStmts \o otherStatements
  IN IF Len(funcStatements) < 2 THEN [changed |-> FALSE, body |-> body]
     ELSE IF newStatements # body THEN [changed |-> TRUE, body |-> newStatements]
     ELSE [changed |-> FALSE, body |-> body]

\* tryReorderArrowOrFunctionExpr / tryReorderFunctionDeclaration on one body
tryReorderBody(body) ==
  IF Len(body) < 2 THEN body ELSE reorderBlockStatements(body).body

\* visitForNestedBlocks on one top-level statement
visitForNestedBlocks(s) ==
  IF s.kind \in {"fn", "var"}
  THEN [s EXCEPT !.decls = [k \in DOMAIN s.decls |->
                              IF s.decls[k].init \in {"fn", "call"}
                              THEN [s.decls[k] EXCEPT !.body = tryReorderBody(@)]
                              ELSE s.decls[k]]]
  ELSE s

transformNestedBlocks(file) == [i \in DOMAIN file |-> visitForNestedBlocks(file[i])]

\* analyzerDependencyGraph: <<>> when undefined, <<graph>> when given
reorderFunctionDeclarations(file, analyzerDependencyGraph) ==
  LET categorized == categorizeNodes(file)
      dependencies == IF analyzerDependencyGraph = <<>>
                      THEN buildDependencyGraph(categorized.functions)
                      ELSE analyzerDependencyGraph[1]
      reordered == reorderFunctions(categorized.functions, dependencies)
  IN [file |-> transformNestedBlocks(reconstructStatements(categorized, reordered.functions)),
      dependencies |-> reordered.dependencies]

(***************************************************************************)
(* Text <-> tree.  A content is the statement tree plus its layout: the    *)
(* printer always emits its own normal layout ("printed"); text written by *)
(* hand ("raw") parses to the same tree but is a different string.         *)
(***************************************************************************)
parseContent(content) == content.stmts

printFile(file) == [stmts |-> file, layout |-> "printed"]

EmptyText == [stmts |-> <<>>, layout |-> "printed"]

(***************************************************************************)
(* Rules and registry (stepdown-rule.ts, nested-rule.ts, registry.ts)      *)
(***************************************************************************)
DefaultRules == <<"stepdown", "nested">>

\* ids: config.enabledRuleIds as [defined, ids]
Undefined == [defined |-> FALSE, ids |-> <<>>]

Ids(ids) == [defined |-> TRUE, ids |-> ids]

\* variant: the enabled rules in the order of ids
getEnabledInIdsOrder(rules, ids) ==
  IF ~ids.defined \/ Len(ids.ids) = 0 THEN rules
  ELSE SelectSeq(ids.ids, LAMBDA r : r \in Range(rules))

getEnabled(rules, ids) ==
  IF ~ids.defined \/ Len(ids.ids) = 0 THEN rules
  ELSE SelectSeq(rules, LAMBDA r : r \in Range(ids.ids))

\* list(): a copy of the registered rules
list(rules) == rules

\* register(rule): rules.push(rule)
register(rules, rule) == Append(rules, rule)

useRulePipeline(rules, ids) == ids.defined /\ Len(getEnabled(rules, ids)) > 0

RuleAnalyze(id, ctx) ==
  IF id = "stepdown" THEN findStepdownViolations(ctx) ELSE findNestedViolations(ctx)

RuleFix(id, ctx) ==
  IF id = "stepdown"
  THEN printFile(reorderTopLevelOnly(ctx.file, ctx.dependencyGraph))
  ELSE printFile(transformNestedBlocks(ctx.file))

analyzeWithRules(file, enabledRules) ==
  LET ctx == buildRuleContext(file)
      allViolations == Flatten([i \in 1..Len(enabledRules) |-> RuleAnalyze(enabledRules[i], ctx)])
  IN [violations |-> SelectSeq(allViolations, LAMBDA v : "dependency" \in DOMAIN v),
      nestedFunctionViolations |-> SelectSeq(allViolations, LAMBDA v : "nested" \in DOMAIN v),
      circularDependencies |-> detectCircularDependencies(ctx.functions, ctx.callGraph),
      totalFunctions |-> Len(ctx.functions),
      dependencyGraph |-> ctx.dependencyGraph,
      errors |-> <<>>]

\* the analysis analyzeFiles / processOneFile run on one parsed file
AnalyzeOne(content, rules, ids) ==
  IF useRulePipeline(rules, ids)
  THEN analyzeWithRules(parseContent(content), getEnabled(rules, ids))
  ELSE analyzeParsedFile(parseContent(content))

(***************************************************************************)
(* fixer.ts: fixParsedFile, fixFileWithRules                               *)
(***************************************************************************)
createUnfixedResult(errors) ==
  [fixed |-> FALSE, originalContent |-> EmptyText, fixedContent |-> EmptyText, errors |-> errors]

\* result plus the dependency map as the call leaves it
fixParsedFile(content, dependencyGraph) ==
  LET out == reorderFunctionDeclarations(parseContent(content), dependencyGraph)
      fixedContent == printFile(out.file)
  IN [result |-> [fixed |-> fixedContent # content, originalContent |-> content,
                  fixedContent |-> fixedContent, errors |-> <<>>],
      dependencies |-> out.dependencies]

\* the loop of fixFileWithRules: [content, threw, invoked]; threw = a rule's
\* fix raised; invoked = the rules whose fix was called, in call order
RECURSIVE rulesLoop(_,_,_,_,_)
rulesLoop(enabledRules, i, content, fixThrows, invoked) ==
  IF i > Len(enabledRules) THEN [content |-> content, threw |-> FALSE, invoked |-> invoked]
  ELSE LET ctx == buildRuleContext(parseContent(content))
           violations == RuleAnalyze(enabledRules[i], ctx)
       IN IF Len(violations) > 0
          THEN IF fixThrows
               THEN [content |-> content, threw |-> TRUE,
                     invoked |-> Append(invoked, enabledRules[i])]
               ELSE rulesLoop(enabledRules, i + 1, RuleFix(enabledRules[i], ctx), fixThrows,
                              Append(invoked, enabledRules[i]))
          ELSE rulesLoop(enabledRules, i + 1, content, fixThrows, invoked)

\* variant: reports fixed = true whatever the text
fixFileWithRulesAlwaysFixed(originalContent, enabledRules, fixThrows) ==
  LET r == rulesLoop(enabledRules, 1, originalContent, fixThrows, <<>>)
  IN [threw |-> r.threw, invoked |-> r.invoked,
      result |-> [fixed |-> TRUE, originalContent |-> originalContent,
                  fixedContent |-> r.content, errors |-> <<>>]]

fixFileWithRules(originalContent, enabledRules, fixThrows) ==
  LET r == rulesLoop(enabledRules, 1, originalContent, fixThrows, <<>>)
  IN [threw |-> r.threw, invoked |-> r.invoked,
      result |-> [fixed |-> r.content # originalContent, originalContent |-> originalContent,
                  fixedContent |-> r.content, errors |-> <<>>]]

(***************************************************************************)
(* Bounded inputs                                                          *)
(***************************************************************************)
MaxFuncs == 3

MaxCalls == 4

PipelineCalls == 2

MaxRounds == 5

NameSeq == <<"f1", "f2", "f3", "f4", "f5", "f6">>

FnName(i) == NameSeq[i]

NameSet(n) == {FnName(i) : i \in 1..n}

ExprStmt(calls, tag) == [kind |-> "expr", calls |-> calls, decls |-> <<>>, tag |-> tag]

FnDeclStmt(name, body) ==
  [kind |-> "fn", calls |-> <<>>, tag |-> 0,
   decls |-> <<[name |-> name, init |-> "fn", body |-> body]>>]

ArrowStmt(name, body) ==
  [kind |-> "var", calls |-> <<>>, tag |-> 0,
   decls |-> <<[name |-> name, init |-> "fn", body |-> body]>>]

\* const x = make(() => { body })
VarCallStmt(name, body) ==
  [kind |-> "var", calls |-> <<>>, tag |-> 0,
   decls |-> <<[name |-> name, init |-> "call", body |-> body]>>]

\* describe(() => { body });
CallbackStmt(body) ==
  [kind |-> "expr", calls |-> <<>>, tag |-> 0,
   decls |-> <<[name |-> "", init |-> "call", body |-> body]>>]

ImportStmt(tag) == [kind |-> "import", calls |-> <<>>, decls |-> <<>>, tag |-> tag]

ExportStmt(tag) == [kind |-> "export", calls |-> <<>>, decls |-> <<>>, tag |-> tag]

\* a body whose only statement makes the given calls (empty body for none)
CallBody(calls) == IF calls = <<>> THEN <<>> ELSE <<ExprStmt(calls, 0)>>

\* function i: declarations at odd positions, arrow bindings at even ones
FlatFn(i, calls) ==
  IF i % 2 = 1 THEN FnDeclStmt(FnName(i), CallBody(calls))
  ELSE ArrowStmt(FnName(i), CallBody(calls))

\* sequences of 1..n distinct elements of S
Arrangements(S, n) ==
  UNION {{q \in [1..k -> S] : \A i, j \in 1..k : q[i] = q[j] => i = j} : k \in 1..n}

\* call lists of functions i..n: each calls distinct other functions, at most
\* `budget` call sites in all
RECURSIVE CallPlans(_,_,_)
CallPlans(i, n, budget) ==
  IF i > n THEN {<<>>}
  ELSE UNION {{<<c>> \o rest : rest \in CallPlans(i + 1, n, budget - Len(c))} :
                c \in {<<>>} \cup Arrangements(NameSet(n) \ {FnName(i)}, budget)}

\* top-level functions with distinct names, function i making the calls plan[i]
FlatFile(plan) == [i \in DOMAIN plan |-> FlatFn(i, plan[i])]

Raw(file) == [stmts |-> file, layout |-> "raw"]

(***************************************************************************)
(* State                                                                   *)
(***************************************************************************)
VARIABLES
  disk,            \* file contents, indexed by resolved file (sorted paths)
  registry,        \* registered rule ids, in registration order
  enabledRuleIds,  \* config.enabledRuleIds, as [defined, ids]
  throwing,        \* files on which the fix computation raises an exception
  unreadable,      \* files whose read (FileService.readFile) raises an exception
  pc,              \* "idle", or position of the running fixFiles: "parse" | "fix"
  idx,             \* file being processed by the running fixFiles
  snapshot,        \* disk when the running / last fixFiles started
  written,         \* files the running / last fixFiles has written (writeFile calls)
  pending,         \* analysis result of file idx between its two steps
  parsedTexts,     \* text parseFile read for each file the running / last fixFiles analysed
  analysisResults, \* runPipeline's analysisResults so far
  fixResults,      \* runPipeline's fixResults so far
  returned,        \* outcome of the last finished fixFiles call (status "none": none yet)
  lastAnalysis,    \* result of the last analyzeFiles call (<<>>: none yet)
  analyzeStatus,   \* outcome of the last analyzeFiles call: "none" | "resolved" | "rejected"
  analyzed,        \* lastAnalysis is of the current disk
  counts,          \* total violation count of each analyzeFiles call so far
  rounds,          \* number of finished fixFiles calls
  uIn,             \* unit runs: the input content
  uOut             \* unit runs: the operation applied (op "none": not yet) and its result

vars == <<disk, registry, enabledRuleIds, throwing, unreadable, pc, idx, snapshot, written,
          pending, parsedTexts, analysisResults, fixResults, returned, lastAnalysis, analyzeStatus,
          analyzed, counts, rounds, uIn, uOut>>

pipelineVars == <<disk, registry, enabledRuleIds, throwing, unreadable, pc, idx, snapshot,
                  written, pending, parsedTexts, analysisResults, fixResults, returned, lastAnalysis,
                  analyzeStatus, analyzed, counts, rounds>>

unitVars == <<uIn, uOut>>

TotalViolations(result) == Len(result.violations) + Len(result.nestedFunctionViolations)

RECURSIVE SumSeq(_)
SumSeq(s) == IF s = <<>> THEN 0 ELSE Head(s) + SumSeq(Tail(s))

(***************************************************************************)
(* analyzer.ts: analyzeFiles                                               *)
(***************************************************************************)
\* the loop has no try/catch: parseFile raising on one file rejects the call
AnalyzeFiles ==
  /\ pc = "idle"
  /\ ~analyzed
  /\ IF \E i \in DOMAIN disk : i \in unreadable
     THEN /\ analyzeStatus' = "rejected"
          /\ lastAnalysis' = <<>>
          /\ UNCHANGED counts
     ELSE /\ analyzeStatus' = "resolved"
          /\ lastAnalysis' = [i \in DOMAIN disk |-> AnalyzeOne(disk[i], registry, enabledRuleIds)]
          /\ counts' = Append(counts, SumSeq([i \in DOMAIN disk |-> TotalViolations(lastAnalysis'[i])]))
  /\ analyzed' = TRUE
  /\ UNCHANGED <<disk, registry, enabledRuleIds, throwing, unreadable, pc, idx, snapshot, written,
                 pending, parsedTexts, analysisResults, fixResults, returned, rounds, uIn, uOut>>

(***************************************************************************)
(* fixer.ts: fixFiles = runPipeline with fix: true                         *)
(***************************************************************************)
\* runPipeline up to its loop: resolve the files, pick the rules; a round is
\* one analyzeFiles call followed by one fixFiles call
FixFilesStart ==
  /\ pc = "idle"
  /\ analyzed
  /\ rounds < MaxRounds
  /\ pc' = "parse"
  /\ idx' = 1
  /\ snapshot' = disk
  /\ written' = {}
  /\ parsedTexts' = <<>>
  /\ analysisResults' = <<>>
  /\ fixResults' = <<>>
  /\ UNCHANGED <<disk, registry, enabledRuleIds, throwing, unreadable, pending, returned,
                 lastAnalysis, analyzeStatus, analyzed, counts, rounds, uIn, uOut>>

\* FileService.writeFile on file i
writeFile(files, i, content) == [files EXCEPT ![i] = content]

\* if (result.fixed) await service.writeFile(filePath, result.fixedContent)
WriteIfFixed(result) ==
  IF result.fixed
  THEN /\ disk' = writeFile(disk, idx, result.fixedContent)
       /\ written' = written \cup {idx}
  ELSE UNCHANGED <<disk, written>>

\* what runPipeline does once processOneFile has returned for file idx
FileDone(analysisResult, fixResult) ==
  /\ analysisResults' = Append(analysisResults, analysisResult)
  /\ fixResults' = Append(fixResults, fixResult)
  /\ IF idx = Len(disk)
     THEN /\ pc' = "idle"
          /\ idx' = idx
          /\ returned' = [status |-> "resolved", fixResults |-> fixResults']
          /\ rounds' = rounds + 1
          /\ analyzed' = FALSE
     ELSE /\ pc' = "parse"
          /\ idx' = idx + 1
          /\ UNCHANGED <<returned, rounds, analyzed>>

\* processOneFile up to the read of the fix step: parseFile and the analysis;
\* on the legacy path a file without violations is finished here
ProcessParse ==
  /\ pc = "parse"
  /\ IF idx \in unreadable
     THEN /\ pc' = "idle"
          /\ returned' = [status |-> "rejected", fixResults |-> <<>>]
          /\ rounds' = rounds + 1
          /\ analyzed' = FALSE
          /\ UNCHANGED <<idx, pending, parsedTexts, analysisResults, fixResults>>
     ELSE LET analysisResult == AnalyzeOne(disk[idx], registry, enabledRuleIds)
          IN /\ parsedTexts' = Append(parsedTexts, disk[idx])
             /\ IF ~useRulePipeline(registry, enabledRuleIds) /\ Len(analysisResult.violations) = 0
                THEN /\ FileDone(analysisResult, createUnfixedResult(<<>>))
                     /\ UNCHANGED pending
                ELSE /\ pending' = analysisResult
                     /\ pc' = "fix"
                     /\ UNCHANGED <<idx, analysisResults, fixResults, returned, rounds, analyzed>>
  /\ UNCHANGED <<disk, registry, enabledRuleIds, throwing, unreadable, snapshot, written,
                 lastAnalysis, analyzeStatus, counts, uIn, uOut>>

\* legacy path: fixFileWithErrorHandling -> fixFile -> fixParsedFile, write
ProcessFixLegacy ==
  /\ pc = "fix"
  /\ ~useRulePipeline(registry, enabledRuleIds)
  /\ IF idx \in throwing
     THEN /\ FileDone(pending, createUnfixedResult(<<"error">>))
          /\ UNCHANGED <<disk, written>>
     ELSE LET r == fixParsedFile(disk[idx], <<pending.dependencyGraph>>)
          IN /\ WriteIfFixed(r.result)
             /\ FileDone([pending EXCEPT !.dependencyGraph = r.dependencies], r.result)
  /\ UNCHANGED <<registry, enabledRuleIds, throwing, unreadable, snapshot, pending, parsedTexts,
                 lastAnalysis, analyzeStatus, counts, uIn, uOut>>

\* rule pipeline: readFile, fixFileWithRules, write; an exception raised by a
\* rule's fix is caught nowhere and rejects the whole fixFiles call
ProcessFixRules ==
  /\ pc = "fix"
  /\ useRulePipeline(registry, enabledRuleIds)
  /\ LET r == fixFileWithRules(disk[idx], getEnabled(registry, enabledRuleIds), idx \in throwing)
     IN IF r.threw
        THEN /\ pc' = "idle"
             /\ returned' = [status |-> "rejected", fixResults |-> <<>>]
             /\ rounds' = rounds + 1
             /\ analyzed' = FALSE
             /\ UNCHANGED <<disk, written, idx, analysisResults, fixResults>>
        ELSE /\ WriteIfFixed(r.result)
             /\ FileDone(pending, r.result)
  /\ UNCHANGED <<registry, enabledRuleIds, throwing, unreadable, snapshot, pending, parsedTexts,
                 lastAnalysis, analyzeStatus, counts, uIn, uOut>>

(***************************************************************************)
(* Unit runs: one call of an exported function on one content              *)
(***************************************************************************)
UnitOut(op, content, dependencies) ==
  [op |-> op, content |-> content, dependencies |-> dependencies]

\* analyzeParsedFile(parsedFile), and the same file through the rules
UnitAnalyze ==
  /\ pc = "unit" /\ uOut.op = "none"
  /\ LET ctx == buildRuleContext(parseContent(uIn))
     IN uOut' = [op |-> "analyze",
                 analysis |-> analyzeParsedFile(parseContent(uIn)),
                 ruleAnalysis |-> analyzeWithRules(parseContent(uIn), DefaultRules),
                 functions |-> ctx.functions,
                 callGraph |-> ctx.callGraph,
                 unfiltered |-> findViolations(ctx.functions, ctx.callGraph)]
  /\ UNCHANGED <<pipelineVars, uIn>>

\* fixParsedFile({content, analysisResult}) with the analyzer's result
UnitFixParsedFile ==
  /\ pc = "unit" /\ uOut.op = "none"
  /\ LET r == fixParsedFile(uIn, <<analyzeParsedFile(parseContent(uIn)).dependencyGraph>>)
     IN uOut' = UnitOut("fixParsedFile", r.result.fixedContent, r.dependencies)
  /\ UNCHANGED <<pipelineVars, uIn>>

\* fixParsedFile({content}) without an analysis result
UnitFixParsedFileAlone ==
  /\ pc = "unit" /\ uOut.op = "none"
  /\ LET r == fixParsedFile(uIn, <<>>)
     IN uOut' = UnitOut("fixParsedFileAlone", r.result.fixedContent, r.dependencies)
  /\ UNCHANGED <<pipelineVars, uIn>>

\* stepdownRule.fix(ctx, violations)
UnitStepdownRuleFix ==
  /\ pc = "unit" /\ uOut.op = "none"
  /\ LET ctx == buildRuleContext(parseContent(uIn))
         categorized == categorizeNodes(ctx.file)
     IN uOut' = UnitOut("stepdownRule.fix", RuleFix("stepdown", ctx),
                        reorderFunctions(categorized.functions, ctx.dependencyGraph).dependencies)
  /\ UNCHANGED <<pipelineVars, uIn>>

\* nestedRule.fix(ctx, violations)
UnitNestedRuleFix ==
  /\ pc = "unit" /\ uOut.op = "none"
  /\ LET ctx == buildRuleContext(parseContent(uIn))
     IN uOut' = UnitOut("nestedRule.fix", RuleFix("nested", ctx), ctx.dependencyGraph)
  /\ UNCHANGED <<pipelineVars, uIn>>

\* orders in which the two rules can be registered and enabled
RuleOrders == {<<"stepdown">>, <<"nested">>, <<"stepdown", "nested">>, <<"nested", "stepdown">>}

\* fixFileWithRules({originalContent, enabledRules})
UnitFixFileWithRules ==
  /\ pc = "unit" /\ uOut.op = "none"
  /\ \E enabledRules \in RuleOrders :
       LET r == fixFileWithRules(uIn, enabledRules, FALSE)
       IN uOut' = [op |-> "fixFileWithRules",
                   enabledRules |-> enabledRules,
                   invoked |-> r.invoked,
                   content |-> r.result.fixedContent]
  /\ UNCHANGED <<pipelineVars, uIn>>

\* topologicalSort(dependencies, sourceOrder) on the analyzer's dependency
\* map of uIn, as it is or after findAndRemoveLeafFunctions
UnitTopologicalSort ==
  /\ pc = "unit" /\ uOut.op = "none"
  /\ \E removeLeaves \in BOOLEAN :
       LET ctx == buildRuleContext(parseContent(uIn))
           sourceOrder == SourceOrderOf(categorizeNodes(ctx.file).functions)
           dependencies == IF removeLeaves
                           THEN findAndRemoveLeafFunctions(ctx.dependencyGraph, sourceOrder).dependencies
                           ELSE ctx.dependencyGraph
       IN uOut' = [op |-> "topologicalSort",
                   dependencies |-> dependencies,
                   result |-> topologicalSort(dependencies, sourceOrder)]
  /\ UNCHANGED <<pipelineVars, uIn>>

\* getPosition: 1-based line of node.getStart(); in a text without line
\* breaks every node starts on line 1
getPosition(layout, line) == IF layout = "oneline" THEN 1 ELSE line

\* analyzeParsedFile on the statements of uIn written on a single line
UnitAnalyzeOneLine ==
  /\ pc = "unit" /\ uOut.op = "none"
  /\ LET ctx == buildRuleContext(parseContent(uIn))
         functions == [i \in DOMAIN ctx.functions |->
                         [ctx.functions[i] EXCEPT !.line = getPosition("oneline", @)]]
         circular == detectCircularDependencies(functions, ctx.callGraph)
     IN uOut' = [op |-> "analyzeOneLine",
                 functions |-> functions,
                 circularDependencies |-> circular,
                 violations |-> filterOutCircularViolations(
                                  findViolations(functions, ctx.callGraph), circular)]
  /\ UNCHANGED <<pipelineVars, uIn>>

(***************************************************************************)
(* Input families                                                          *)
(***************************************************************************)
MaxStmts == 4

MaxBody == 3

\* the statements alphabet[q[1]], alphabet[q[2]], ...
Pick(alphabet, q) == [i \in DOMAIN q |-> alphabet[q[i]]]

\* top-level statements of every category
MixedAlphabet ==
  <<ImportStmt(1), ImportStmt(2), ExportStmt(1), ExportStmt(2),
    ExprStmt(<<>>, 1), ExprStmt(<<"f1">>, 2),
    FnDeclStmt("f1", CallBody(<<"f2">>)),
    ArrowStmt("f2", <<>>)>>

\* two function statements sharing a name, and a statement that declares a
\* plain variable before a function
SharedNameAlphabet ==
  <<ExprStmt(<<>>, 1),
    FnDeclStmt("f1", CallBody(<<"f2">>)),
    FnDeclStmt("f2", <<>>),
    [FnDeclStmt("f2", CallBody(<<"f3">>)) EXCEPT !.tag = 1],
    [kind |-> "var", calls |-> <<>>, tag |-> 0,
     decls |-> <<[name |-> "v", init |-> "val", body |-> <<>>],
                 [name |-> "f3", init |-> "fn", body |-> <<>>]>>]>>

\* bodies of a parent function: logic and nested functions g1, g2
BodyAlphabet ==
  <<ExprStmt(<<>>, 1), ExprStmt(<<"g1">>, 2),
    ArrowStmt("g1", <<>>), ArrowStmt("g1", CallBody(<<"g2">>)),
    ArrowStmt("g2", <<>>)>>

\* a top-level function h, a caller of h, and a function with a nested h
ShadowAlphabet ==
  <<FnDeclStmt("a", <<ArrowStmt("h", <<>>), ExprStmt(<<>>, 1)>>),
    FnDeclStmt("h", <<>>),
    ArrowStmt("b", CallBody(<<"h">>))>>

\* function a() { log(); const h = () => {}; }
\* function h() { const g1 = () => {}; g1(); a(); }
ShadowParentAlphabet ==
  <<FnDeclStmt("a", <<ExprStmt(<<>>, 1), ArrowStmt("h", <<>>)>>),
    FnDeclStmt("h", <<ArrowStmt("g1", <<>>), ExprStmt(<<"g1", "a">>, 2)>>),
    ExprStmt(<<>>, 3)>>

\* function outer() { function inner() { const deep = () => {}; log(); } log(); }
\* function top() { function mid() { const g2 = () => {}; const g1 = () => { g2(); }; } }
\* describe(() => { const g2 = () => {}; const g1 = () => { g2(); }; });
DeepAlphabet ==
  <<FnDeclStmt("outer", <<FnDeclStmt("inner", <<ArrowStmt("deep", <<>>), ExprStmt(<<>>, 1)>>),
                          ExprStmt(<<>>, 2)>>),
    FnDeclStmt("top", <<FnDeclStmt("mid", <<ArrowStmt("g2", <<>>),
                                            ArrowStmt("g1", CallBody(<<"g2">>))>>)>>),
    CallbackStmt(<<ArrowStmt("g2", <<>>), ArrowStmt("g1", CallBody(<<"g2">>))>>)>>

\* a function r that calls itself, a caller u of r, and a caller w of u
SelfAlphabet ==
  <<FnDeclStmt("r", CallBody(<<"r">>)),
    ArrowStmt("u", CallBody(<<"r">>)),
    FnDeclStmt("w", CallBody(<<"u">>))>>

\* createRateLimit calls setRateLimitHeaders at two call sites
RateLimitAlphabet ==
  <<ArrowStmt("setRateLimitHeaders", <<>>),
    ArrowStmt("generateRateLimitKey", <<>>),
    ArrowStmt("createRateLimit",
              CallBody(<<"setRateLimitHeaders", "generateRateLimitKey", "setRateLimitHeaders">>))>>

\* const a = () => {}, b = () => { const n = () => { a(); }; n(); };
\* function c() { each(() => { const d = () => {}; }); }
MultiDeclAlphabet ==
  <<[kind |-> "var", calls |-> <<>>, tag |-> 0,
     decls |-> <<[name |-> "a", init |-> "fn", body |-> <<>>],
                 [name |-> "b", init |-> "fn",
                  body |-> <<ArrowStmt("n", CallBody(<<"a">>)), ExprStmt(<<"n">>, 0)>>]>>],
    FnDeclStmt("c", <<CallbackStmt(<<ArrowStmt("d", <<>>)>>)>>),
    ExprStmt(<<"a">>, 1)>>

\* helper above main (one stepdown violation), or nothing, before the parent
Preludes ==
  {<<>>, <<FnDeclStmt("helper", <<>>), FnDeclStmt("main", CallBody(<<"helper">>))>>}

Makers == {"fn", "arrow", "call", "callback"}

\* the statement that holds `body`: function p() {..}, const p = () => {..},
\* const p = make(() => {..}), describe(() => {..})
Parent(maker, body) ==
  IF maker = "fn" THEN FnDeclStmt("p", body)
  ELSE IF maker = "arrow" THEN ArrowStmt("p", body)
  ELSE IF maker = "call" THEN VarCallStmt("p", body)
  ELSE CallbackStmt(body)

NestedFile(prelude, maker, q) == prelude \o <<Parent(maker, Pick(BodyAlphabet, q))>>

Configs == {Undefined, Ids(<<"stepdown">>), Ids(<<"nested">>), Ids(<<"stepdown", "nested">>)}

\* two-file batches for failure isolation
BatchFiles == {<<FnDeclStmt("helper", <<>>), FnDeclStmt("main", CallBody(<<"helper">>))>>,
               <<FnDeclStmt("main", CallBody(<<"helper">>)), FnDeclStmt("helper", <<>>)>>}

InitCommon ==
  /\ idx = 1
  /\ snapshot = <<>>
  /\ written = {}
  /\ pending = [status |-> "none"]
  /\ parsedTexts = <<>>
  /\ analysisResults = <<>>
  /\ fixResults = <<>>
  /\ returned = [status |-> "none", fixResults |-> <<>>]
  /\ lastAnalysis = <<>>
  /\ analyzeStatus = "none"
  /\ analyzed = FALSE
  /\ counts = <<>>
  /\ rounds = 0

Init ==
  /\ InitCommon
  /\ pc = "idle"
  /\ uIn = EmptyText
  /\ uOut = [op |-> "none"]
  /\ \/ /\ \/ \E n \in 1..MaxFuncs : \E plan \in CallPlans(1, n, PipelineCalls) :
                 disk = <<Raw(FlatFile(plan))>>
           \/ \E prelude \in Preludes, maker \in Makers :
                 \E q \in Arrangements(DOMAIN BodyAlphabet, MaxBody) :
                   disk = <<Raw(NestedFile(prelude, maker, q))>>
        /\ registry = DefaultRules
        /\ enabledRuleIds \in Configs
        /\ throwing = {}
        /\ unreadable = {}
     \/ /\ \E f \in BatchFiles, g \in BatchFiles : disk = <<Raw(f), Raw(g)>>
        /\ registry \in {<<>>, DefaultRules}
        /\ enabledRuleIds \in {Undefined, Ids(<<"stepdown">>)}
        /\ throwing \in SUBSET {1, 2}
        /\ unreadable \in {{}, {1}, {2}}

Next ==
  \/ AnalyzeFiles
  \/ FixFilesStart
  \/ ProcessParse
  \/ ProcessFixLegacy
  \/ ProcessFixRules

Spec == Init /\ [][Next]_vars

(***************************************************************************)
(* fixFiles next to another process that writes the files                  *)
(***************************************************************************)
MaxExternalRounds == 1

\* another process overwrites file i while one of the first MaxExternalRounds
\* fixFiles calls is running
ExternalWrite ==
  /\ pc \in {"parse", "fix"}
  /\ rounds < MaxExternalRounds
  /\ \E i \in DOMAIN disk, f \in BatchFiles :
       /\ disk[i] # Raw(f)
       /\ disk' = writeFile(disk, i, Raw(f))
  /\ UNCHANGED <<registry, enabledRuleIds, throwing, unreadable, pc, idx, snapshot, written,
                 pending, parsedTexts, analysisResults, fixResults, returned, lastAnalysis,
                 analyzeStatus, analyzed, counts, rounds, uIn, uOut>>

InitConcurrent ==
  /\ InitCommon
  /\ pc = "idle"
  /\ uIn = EmptyText
  /\ uOut = [op |-> "none"]
  /\ \/ \E f \in BatchFiles : disk = <<Raw(f)>>
     \/ \E f \in BatchFiles, g \in BatchFiles : disk = <<Raw(f), Raw(g)>>
  /\ registry = DefaultRules
  /\ enabledRuleIds \in {Undefined, Ids(<<"stepdown">>)}
  /\ throwing = {}
  /\ unreadable = {}

NextConcurrent ==
  \/ AnalyzeFiles
  \/ FixFilesStart
  \/ ProcessParse
  \/ ProcessFixLegacy
  \/ ProcessFixRules
  \/ ExternalWrite

SpecConcurrent == InitConcurrent /\ [][NextConcurrent]_vars

InitUnit ==
  /\ InitCommon
  /\ pc = "unit"
  /\ disk = <<>>
  /\ registry = DefaultRules
  /\ enabledRuleIds = Undefined
  /\ throwing = {}
  /\ unreadable = {}
  /\ \/ \E n \in 1..MaxFuncs : \E plan \in CallPlans(1, n, MaxCalls) :
          uIn = Raw(FlatFile(plan))
     \/ \E q \in Arrangements(DOMAIN MixedAlphabet, MaxStmts) :
          uIn = Raw(Pick(MixedAlphabet, q))
     \/ \E q \in Arrangements(DOMAIN SharedNameAlphabet, MaxStmts) :
          uIn = Raw(Pick(SharedNameAlphabet, q))
     \/ \E prelude \in Preludes, maker \in Makers :
          \E q \in Arrangements(DOMAIN BodyAlphabet, MaxBody) :
            uIn = Raw(NestedFile(prelude, maker, q))
     \/ \E q \in Arrangements(DOMAIN ShadowAlphabet, MaxStmts) :
          uIn = Raw(Pick(ShadowAlphabet, q))
     \/ \E q \in Arrangements(DOMAIN SelfAlphabet, MaxStmts) :
          uIn = Raw(Pick(SelfAlphabet, q))
     \/ \E q \in Arrangements(DOMAIN RateLimitAlphabet, MaxStmts) :
          uIn = Raw(Pick(RateLimitAlphabet, q))
     \/ \E q \in Arrangements(DOMAIN MultiDeclAlphabet, MaxStmts) :
          uIn = Raw(Pick(MultiDeclAlphabet, q))
     \/ \E q \in Arrangements(DOMAIN ShadowParentAlphabet, MaxStmts) :
          uIn = Raw(Pick(ShadowParentAlphabet, q))
     \/ \E q \in Arrangements(DOMAIN DeepAlphabet, MaxStmts) :
          uIn = Raw(Pick(DeepAlphabet, q))
  /\ uOut = [op |-> "none"]

NextUnit ==
  \/ UnitAnalyze
  \/ UnitFixParsedFile
  \/ UnitFixParsedFileAlone
  \/ UnitStepdownRuleFix
  \/ UnitNestedRuleFix
  \/ UnitAnalyzeOneLine
  \/ UnitTopologicalSort
  \/ UnitFixFileWithRules

SpecUnit == InitUnit /\ [][NextUnit]_vars

(***************************************************************************)
(* Registry runs: rules are registered, then getEnabled or list is called  *)
(***************************************************************************)
MaxRules == 3

MaxIds == 2

\* ids of the rules that may be registered or asked for
RuleIds == {"stepdown", "nested", "stub"}

\* values of the ids argument: undefined, [], or a list of distinct ids
IdLists == {Undefined, Ids(<<>>)} \cup {Ids(q) : q \in Arrangements(RuleIds, MaxIds)}

registryFrame == <<disk, enabledRuleIds, throwing, unreadable, pc, idx, snapshot, written,
                   pending, parsedTexts, analysisResults, fixResults, returned, lastAnalysis,
                   analyzeStatus, analyzed, counts, rounds, uIn>>

Register ==
  /\ pc = "registry" /\ uOut.op = "none"
  /\ Len(registry) < MaxRules
  /\ \E id \in RuleIds : registry' = register(registry, id)
  /\ UNCHANGED <<registryFrame, uOut>>

GetEnabled ==
  /\ pc = "registry" /\ uOut.op = "none"
  /\ \E ids \in IdLists :
       uOut' = [op |-> "getEnabled", ids |-> ids, result |-> getEnabled(registry, ids)]
  /\ UNCHANGED <<registryFrame, registry>>

List ==
  /\ pc = "registry" /\ uOut.op = "none"
  /\ uOut' = [op |-> "list", ids |-> Undefined, result |-> list(registry)]
  /\ UNCHANGED <<registryFrame, registry>>

InitRegistry ==
  /\ InitCommon
  /\ pc = "registry"
  /\ disk = <<>>
  /\ registry = <<>>
  /\ enabledRuleIds = Undefined
  /\ throwing = {}
  /\ unreadable = {}
  /\ uIn = EmptyText
  /\ uOut = [op |-> "none"]

NextRegistry ==
  \/ Register
  \/ GetEnabled
  \/ List

SpecRegistry == InitRegistry /\ [][NextRegistry]_vars

(***************************************************************************)
(* Vocabulary of the properties                                            *)
(***************************************************************************)
StmtKey(s) ==
  [kind |-> s.kind, tag |-> s.tag, calls |-> s.calls,
   names |-> [k \in DOMAIN s.decls |-> s.decls[k].name]]

KeysOf(file) == [i \in DOMAIN file |-> StmtKey(file[i])]

Count(seq, x) == Cardinality({i \in DOMAIN seq : seq[i] = x})

\* 1 imports, 2 function statements, 3 other statements, 4 exports
Category(s) ==
  IF s.kind = "import" THEN 1
  ELSE IF s.kind = "export" THEN 4
  ELSE IF isFunctionStatement(s) THEN 2 ELSE 3

OfCategory(file, c) == SelectSeq(file, LAMBDA s : Category(s) = c)

\* index of the top-level statement that declares function `name` (0: none)
PosOf(file, name) ==
  LET at == {i \in DOMAIN file : \E k \in DOMAIN file[i].decls :
                                   file[i].decls[k].init = "fn" /\ file[i].decls[k].name = name}
  IN IF at = {} THEN 0 ELSE CHOOSE i \in at : \A j \in at : i <= j

\* every function entity is a top-level statement of its own, names distinct
FlatDistinct(file) ==
  /\ \A i \in DOMAIN file :
       file[i].decls # <<>> =>
         /\ Len(file[i].decls) = 1
         /\ file[i].decls[1].init = "fn"
         /\ \A j \in DOMAIN file[i].decls[1].body : file[i].decls[1].body[j].decls = <<>>
  /\ \A i, j \in DOMAIN file :
       (file[i].decls # <<>> /\ file[j].decls # <<>>
        /\ file[i].decls[1].name = file[j].decls[1].name) => i = j

\* the call edges caller -> callee between function entities of the file
CallEdges(file) ==
  LET g == buildRuleContext(file).callGraph
  IN UNION {{<<f, c>> : c \in Range(g.val[f])} : f \in Range(g.keys)}

RECURSIVE Closure(_,_)
Closure(E, k) ==
  IF k = 0 THEN E
  ELSE LET C == Closure(E, k - 1)
       IN C \cup {<<x[1][1], x[2][2]>> : x \in {y \in C \X C : y[1][2] = y[2][1]}}

Paths(file) == Closure(CallEdges(file), Cardinality(CallEdges(file)))

Acyclic(file) == \A e \in Paths(file) : e[1] # e[2]

\* functions on a cycle through at least two distinct functions
OnCycle(file) ==
  LET P == Paths(file)
  IN {e[1] : e \in {x \in P : x[1] # x[2] /\ <<x[2], x[1]>> \in P}}

InCycles(cycles) == UNION {Range(cycles[i]) : i \in DOMAIN cycles}

TopLevelFixOps == {"fixParsedFile", "fixParsedFileAlone", "stepdownRule.fix"}

FixOps == TopLevelFixOps \cup {"nestedRule.fix"}

StepdownCount(results) == SumSeq([i \in DOMAIN results |-> Len(results[i].violations)])

(***************************************************************************)
(* Properties                                                              *)
(***************************************************************************)
\* C1: for a file whose function entities are all top-level statements with
\* distinct names and whose call graph is acyclic, one application of the
\* fixer puts every caller before every function it calls, and re-analysis
\* reports 0 stepdown violations.
C1_FixPutsCallersFirst ==
  (uOut.op \in TopLevelFixOps /\ FlatDistinct(uIn.stmts) /\ Acyclic(uIn.stmts)) =>
    LET out == parseContent(uOut.content)
    IN /\ \A e \in CallEdges(uIn.stmts) :
            /\ PosOf(out, e[1]) # 0
            /\ PosOf(out, e[1]) < PosOf(out, e[2])
       /\ analyzeParsedFile(out).violations = <<>>

C1_Witness ==
  /\ uOut.op = "fixParsedFile"
  /\ FlatDistinct(uIn.stmts) /\ Acyclic(uIn.stmts)
  /\ Len(uIn.stmts) = 3
  /\ LET before == analyzeParsedFile(parseContent(uIn)).violations
     IN Cardinality({<<before[i].function, before[i].dependency>> : i \in DOMAIN before}) >= 2
  /\ uOut.content.stmts # uIn.stmts
  /\ analyzeParsedFile(parseContent(uOut.content)).violations = <<>>

\* C2: across analyze -> fix rounds the total number of violations reported
\* by analyze (stepdown plus nested) never increases from one round to the
\* next.
C2_TotalNeverIncreases ==
  \A i \in 1..(Len(counts) - 1) : counts[i + 1] <= counts[i]

\* C3: for files with an acyclic call graph, analyze -> fixFiles rounds bring
\* the number of actionable stepdown violations to 0 within MaxRounds rounds,
\* wherever the violating functions are declared.
C3_ConvergesWithinMaxRounds ==
  (pc = "idle" /\ analyzed /\ rounds = MaxRounds /\ throwing = {}
   /\ \A i \in DOMAIN disk : Acyclic(parseContent(disk[i]))) =>
    StepdownCount(lastAnalysis) = 0

\* C4: fixFiles is idempotent: when analyze of an already fixed file reports
\* no actionable stepdown violation, another fixFiles leaves every file
\* unchanged and reports fixed = false, on either path.
C4_FixFilesIdempotent ==
  (pc = "idle" /\ ~analyzed /\ rounds >= 2 /\ returned.status = "resolved"
   /\ StepdownCount(lastAnalysis) = 0) =>
    /\ disk = snapshot
    /\ \A i \in DOMAIN returned.fixResults : ~returned.fixResults[i].fixed

\* C5: no stepdown violation returned by analyze names, as caller or as
\* callee, a function that appears in a detected cycle.
C5_NoViolationNamesCycleMember ==
  uOut.op = "analyze" =>
    \A r \in {uOut.analysis, uOut.ruleAnalysis} :
      \A i \in DOMAIN r.violations :
        /\ r.violations[i].function \notin InCycles(r.circularDependencies)
        /\ r.violations[i].dependency \notin InCycles(r.circularDependencies)

C5_Witness ==
  /\ uOut.op = "analyze"
  /\ uOut.analysis.circularDependencies # <<>>
  /\ LET ctx == buildRuleContext(parseContent(uIn))
         all == findViolations(ctx.functions, ctx.callGraph)
     IN \E i \in DOMAIN all :
          /\ all[i].function \in InCycles(uOut.analysis.circularDependencies)
          /\ all[i].dependency \notin InCycles(uOut.analysis.circularDependencies)
  /\ uOut.analysis.violations = <<>>
  /\ uOut.ruleAnalysis.violations = <<>>

\* C6: every function on a call-graph cycle through two or more distinct
\* functions appears in at least one reported cycle, whatever the source
\* order of the functions and the order of their call sites.
C6_EveryCycleMemberReported ==
  uOut.op = "analyze" =>
    \A f \in OnCycle(parseContent(uIn)) : f \in InCycles(uOut.analysis.circularDependencies)

\* C7: when several callers that call nothing else share a callee declared
\* above them, the fixer puts every caller before the callee and keeps the
\* callers in their original relative order.
C7_SharedCalleeKeepsCallerOrder ==
  (uOut.op \in TopLevelFixOps /\ FlatDistinct(uIn.stmts)) =>
    LET src == parseContent(uIn)
        out == parseContent(uOut.content)
        E == CallEdges(src)
    IN \A c \in {e[2] : e \in E} :
         LET callers == {e[1] : e \in {x \in E : x[2] = c}}
         IN (/\ Cardinality(callers) >= 2
             /\ \A e \in E : e[2] = c
             /\ \A f \in callers : PosOf(src, c) < PosOf(src, f)) =>
              /\ \A f \in callers : PosOf(out, f) # 0 /\ PosOf(out, f) < PosOf(out, c)
              /\ \A a, b \in callers :
                   PosOf(src, a) < PosOf(src, b) => PosOf(out, a) < PosOf(out, b)

\* C8: the fixer only changes statement order: each top-level statement of
\* the input occurs exactly once in the output and nothing else does.
C8_OnlyOrderChanges ==
  uOut.op \in FixOps =>
    LET src == KeysOf(parseContent(uIn))
        out == KeysOf(parseContent(uOut.content))
    IN \A k \in Range(src) \cup Range(out) : Count(src, k) = Count(out, k)

\* C9: in the fixer's output the imports come first and the exports last,
\* each group in its original relative order, and the other non-function
\* statements sit between the functions and the exports in their original
\* relative order.
C9_ImportsFirstExportsLast ==
  uOut.op \in TopLevelFixOps =>
    LET src == parseContent(uIn)
        out == parseContent(uOut.content)
    IN /\ \A i, j \in DOMAIN out : i < j => Category(out[i]) <= Category(out[j])
       /\ OfCategory(out, 1) = OfCategory(src, 1)
       /\ OfCategory(out, 4) = OfCategory(src, 4)
       /\ KeysOf(OfCategory(out, 3)) = KeysOf(OfCategory(src, 3))

C9_Witness ==
  /\ uOut.op = "fixParsedFile"
  /\ Len(uIn.stmts) = 4
  /\ Category(uIn.stmts[1]) = 4
  /\ Category(uIn.stmts[2]) = 3
  /\ Category(uIn.stmts[3]) = 2
  /\ Category(uIn.stmts[4]) = 1
  /\ [i \in 1..4 |-> Category(uOut.content.stmts[i])] = <<1, 2, 3, 4>>

\* C10: when a rule's fix step throws on a file, the error is caught for
\* that file (its FixResult has fixed = false and carries the error) and
\* every file of the batch still gets its own result.
C10_ThrowIsCaughtPerFile ==
  (pc = "idle" /\ rounds >= 1 /\ unreadable = {}) =>
    /\ returned.status = "resolved"
    /\ Len(returned.fixResults) = Len(disk)
    /\ \A i \in throwing :
         Len(lastAnalysis[i].violations) > 0 =>
           /\ ~returned.fixResults[i].fixed
           /\ returned.fixResults[i].errors # <<>>

\* C11: a file that cannot be read does not abort the batch: analyzeFiles
\* and fixFiles still return one result per resolved file, and the result of
\* the failing file records the error.
C11_UnreadableFileIsIsolated ==
  /\ (pc = "idle" /\ analyzed) =>
        /\ analyzeStatus = "resolved"
        /\ Len(lastAnalysis) = Len(disk)
        /\ \A i \in unreadable : lastAnalysis[i].errors # <<>>
  /\ (pc = "idle" /\ rounds >= 1 /\ throwing = {}) =>
        /\ returned.status = "resolved"
        /\ Len(returned.fixResults) = Len(disk)
        /\ \A i \in unreadable :
             ~returned.fixResults[i].fixed /\ returned.fixResults[i].errors # <<>>

\* C12: a file is written back if and only if the final fixed text differs
\* from the text that was read; a file whose FixResult has fixed = false is
\* not written and its content is unchanged.
C12_WrittenIffTextDiffers ==
  /\ snapshot # <<>> => \A i \in DOMAIN disk : i \notin written => disk[i] = snapshot[i]
  /\ (pc = "idle" /\ returned.status = "resolved") =>
        \A i \in DOMAIN returned.fixResults :
          LET r == returned.fixResults[i]
          IN /\ i \in written <=> r.fixedContent # r.originalContent
             /\ i \in written => (disk[i] = r.fixedContent /\ r.originalContent = snapshot[i])
             /\ ~r.fixed => (i \notin written /\ disk[i] = snapshot[i])

C12_Witness ==
  /\ pc = "idle" /\ returned.status = "resolved"
  /\ Len(disk) = 2
  /\ written = {1}
  /\ disk[1] # snapshot[1]
  /\ ~returned.fixResults[2].fixed
  /\ useRulePipeline(registry, enabledRuleIds)

\* C13: before cycle filtering, a stepdown violation for caller F and callee
\* C is produced if and only if F and C are entities of different names that
\* both have parentFunction = null, the call-graph entry of F contains a call
\* to C, and C is declared on a line above F's (callees are told apart by
\* name, callers by name and line).
C13_ViolationIffTopLevelCalleeAbove ==
  uOut.op = "analyze" =>
    LET fs == uOut.functions
        top == {i \in DOMAIN fs : fs[i].parentFunction = Null}
        produced == {<<v.function, v.line, v.dependency>> : v \in Range(uOut.unfiltered)}
        expected == {<<fs[p[1]].name, fs[p[1]].line, fs[p[2]].name>> :
                       p \in {x \in top \X top :
                                /\ fs[x[1]].name # fs[x[2]].name
                                /\ fs[x[2]].name \in Range(MapGet(uOut.callGraph, fs[x[1]].name))
                                /\ fs[x[2]].line < fs[x[1]].line}}
    IN produced = expected

\* C14: nested violations have a working fix: for a file on which analyze
\* reports at least one nested violation, the fixer (fixParsedFile, or the
\* nested rule's fix) yields a file with strictly fewer nested violations.
C14_FixReducesNestedViolations ==
  (uOut.op \in FixOps \ {"stepdownRule.fix"}
   /\ Len(analyzeParsedFile(parseContent(uIn)).nestedFunctionViolations) >= 1) =>
    Len(analyzeParsedFile(parseContent(uOut.content)).nestedFunctionViolations)
      < Len(analyzeParsedFile(parseContent(uIn)).nestedFunctionViolations)

\* C15: a nested function whose name is referenced elsewhere in the body of
\* its parent (outside its own declaring statement) is not reported as a
\* nested violation, whether the parent is a function declaration or a
\* function bound to a variable.
C15_ReferencedNestedNotReported ==
  uOut.op = "analyze" =>
    LET file == parseContent(uIn)
        declares(s, n) == \E k \in DOMAIN s.decls : s.decls[k].init = "fn" /\ s.decls[k].name = n
        referenced(body, n) ==
          \E j \in DOMAIN body : ~declares(body[j], n) /\ n \in Range(allCallsOfStmt(body[j]))
    IN \A i \in DOMAIN file : \A k \in DOMAIN file[i].decls :
         LET parent == file[i].decls[k]
         IN parent.init = "fn" =>
              \A j \in DOMAIN parent.body : \A m \in DOMAIN parent.body[j].decls :
                LET nested == parent.body[j].decls[m]
                IN (nested.init = "fn" /\ referenced(parent.body, nested.name)) =>
                     \A r \in {uOut.analysis, uOut.ruleAnalysis} :
                       \A v \in DOMAIN r.nestedFunctionViolations :
                         ~(/\ r.nestedFunctionViolations[v].parent = parent.name
                           /\ r.nestedFunctionViolations[v].nested = nested.name)

\* C16: getEnabled(ids) returns exactly the registered rules whose id occurs
\* in ids, in registration order whatever the order of ids; with ids
\* undefined it returns all registered rules in registration order, and
\* list() returns all registered rules in registration order.
C16_GetEnabledFiltersInRegistrationOrder ==
  /\ uOut.op = "getEnabled" =>
        IF uOut.ids.defined
        THEN uOut.result = SelectSeq(registry, LAMBDA r : r \in Range(uOut.ids.ids))
        ELSE uOut.result = registry
  /\ uOut.op = "list" => uOut.result = registry

\* C16 (amended): getEnabled(ids) with a non-empty ids returns exactly the
\* registered rules whose id occurs in ids, in registration order whatever
\* the order of ids; with ids undefined or empty it returns all registered
\* rules in registration order, and list() returns all registered rules in
\* registration order.
C16_EmptyIdsEnableAll ==
  /\ uOut.op = "getEnabled" =>
        IF uOut.ids.defined /\ uOut.ids.ids # <<>>
        THEN uOut.result = SelectSeq(registry, LAMBDA r : r \in Range(uOut.ids.ids))
        ELSE uOut.result = registry
  /\ uOut.op = "list" => uOut.result = registry

C16_Witness ==
  /\ uOut.op = "getEnabled"
  /\ registry = <<"stepdown", "stub", "nested">>
  /\ uOut.ids = Ids(<<"nested", "stepdown">>)
  /\ uOut.result = <<"stepdown", "nested">>

\* C17: fixParsedFile applied to a file that has no violations leaves the
\* statements in their order, so applying the fixer to an output of its own
\* that has no violations changes nothing.
C17_NoViolationsNoReorder ==
  uOut.op \in {"fixParsedFile", "fixParsedFileAlone"} =>
    LET clean(content) ==
          /\ analyzeParsedFile(parseContent(content)).violations = <<>>
          /\ analyzeParsedFile(parseContent(content)).nestedFunctionViolations = <<>>
        again == fixParsedFile(uOut.content,
                               IF uOut.op = "fixParsedFile"
                               THEN <<analyzeParsedFile(parseContent(uOut.content)).dependencyGraph>>
                               ELSE <<>>).result.fixedContent
    IN /\ clean(uIn) => parseContent(uOut.content) = parseContent(uIn)
       /\ clean(uOut.content) => again = uOut.content

\* C18: every cycle in circularDependencies is a real cycle of the call
\* graph: each consecutive pair of its names is a call edge, and it contains
\* at least two distinct functions.
C18_ReportedCyclesAreReal ==
  uOut.op = "analyze" =>
    \A r \in {uOut.analysis, uOut.ruleAnalysis} :
      \A c \in DOMAIN r.circularDependencies :
        LET cycle == r.circularDependencies[c]
        IN /\ \A i \in 1..(Len(cycle) - 1) :
                <<cycle[i], cycle[i + 1]>> \in CallEdges(parseContent(uIn))
           /\ Cardinality(Range(cycle)) >= 2

\* C19: direct self-recursion is not a cycle: when the only cycles of the
\* call graph are functions calling themselves, circularDependencies is empty
\* and the cycle filter removes no stepdown violation.
C19_SelfRecursionIsNoCycle ==
  (/\ uOut.op = "analyze"
   /\ \E e \in CallEdges(parseContent(uIn)) : e[1] = e[2]
   /\ OnCycle(parseContent(uIn)) = {}) =>
    \A r \in {uOut.analysis, uOut.ruleAnalysis} :
      /\ r.circularDependencies = <<>>
      /\ r.violations = uOut.unfiltered

\* C20: for each caller at most one stepdown violation is reported per
\* distinct callee, however many call sites the caller has for that callee.
C20_OneViolationPerCallee ==
  uOut.op = "analyze" =>
    \A r \in {uOut.analysis, uOut.ruleAnalysis} :
      \A i, j \in DOMAIN r.violations :
        (/\ r.violations[i].function = r.violations[j].function
         /\ r.violations[i].line = r.violations[j].line
         /\ r.violations[i].dependency = r.violations[j].dependency) => i = j

\* C21: a top-level callee whose declaration textually precedes its
\* caller's declaration is reported as a stepdown violation even when both
\* declarations start on the same source line.
C21_SameLineCalleeIsReported ==
  (uOut.op = "analyzeOneLine" /\ FlatDistinct(uIn.stmts) /\ Acyclic(uIn.stmts)) =>
    \A e \in CallEdges(uIn.stmts) :
      PosOf(uIn.stmts, e[2]) < PosOf(uIn.stmts, e[1]) =>
        \E i \in DOMAIN uOut.violations :
          /\ uOut.violations[i].function = e[1]
          /\ uOut.violations[i].dependency = e[2]

\* every call site with the declarators that enclose it, outermost first
RECURSIVE SitesOfStmt(_,_), SitesOfSeq(_,_)
SitesOfStmt(s, chain) ==
  [i \in 1..Len(s.calls) |-> [chain |-> chain, callee |-> s.calls[i]]]
    \o Flatten([k \in 1..Len(s.decls) |->
                  SitesOfSeq(s.decls[k].body,
                             Append(chain, [name |-> s.decls[k].name, init |-> s.decls[k].init]))])

SitesOfSeq(ss, chain) ==
  IF ss = <<>> THEN <<>> ELSE SitesOfStmt(ss[1], chain) \o SitesOfSeq(Tail(ss), chain)

\* name of the innermost function entity of a chain (Null: none)
Enclosing(chain) ==
  LET fns == SelectSeq(chain, LAMBDA c : c.init = "fn")
  IN IF fns = <<>> THEN Null ELSE fns[Len(fns)].name

\* C22: every recorded call edge is attributed to the nearest lexically
\* enclosing function entity of the call site, and a call with no enclosing
\* function entity produces no edge and therefore no violation.
C22_EdgesGoToNearestEnclosingFunction ==
  uOut.op = "analyze" =>
    LET sites == SitesOfSeq(parseContent(uIn), <<>>)
        names == {uOut.functions[i].name : i \in DOMAIN uOut.functions}
        of(n) == SelectSeq(sites, LAMBDA s : Enclosing(s.chain) = n /\ s.callee \in names)
    IN /\ Range(uOut.callGraph.keys) = names
       /\ \A n \in names :
            uOut.callGraph.val[n] = [i \in 1..Len(of(n)) |-> of(n)[i].callee]
       /\ \A v \in Range(uOut.unfiltered) :
            \E s \in Range(sites) :
              Enclosing(s.chain) = v.function /\ s.callee = v.dependency

C22_Witness ==
  /\ uOut.op = "analyze"
  /\ \E i \in DOMAIN uIn.stmts :
       /\ uIn.stmts[i].kind = "fn"
       /\ uIn.stmts[i].decls[1].name = "p"
  /\ uOut.callGraph.val["p"] = <<"g1">>
  /\ uOut.callGraph.val["g1"] = <<"g2">>
  /\ uOut.callGraph.val["g2"] = <<>>

\* a call at the top level of the file to a known function leaves no edge
C22_WitnessTopLevelCall ==
  /\ uOut.op = "analyze"
  /\ \E s \in Range(SitesOfSeq(parseContent(uIn), <<>>)) :
       Enclosing(s.chain) = Null /\ s.callee = "f1"
  /\ "f1" \in Range(uOut.callGraph.keys)
  /\ \A n \in Range(uOut.callGraph.keys) : uOut.callGraph.val[n] = <<>>

\* every function entity with the declarators that enclose its declaring
\* statement, outermost first, in extraction order; owner is the entity of
\* the enclosing declarator's statement (the function declaration, or the
\* first function-bound declarator of a variable statement; Null: none)
RECURSIVE EntitiesOfStmt(_,_), EntitiesOfSeq(_,_)
EntitiesOfStmt(s, chain) ==
  LET owner == IF s.kind \in {"fn", "var"} /\ FnDecls(s) # <<>> THEN FnDecls(s)[1].name ELSE Null
  IN [i \in 1..Len(FnDecls(s)) |-> [name |-> FnDecls(s)[i].name, chain |-> chain]]
       \o Flatten([k \in 1..Len(s.decls) |->
                     EntitiesOfSeq(s.decls[k].body,
                                   Append(chain, [name |-> s.decls[k].name,
                                                  init |-> s.decls[k].init,
                                                  owner |-> owner]))])

EntitiesOfSeq(ss, chain) ==
  IF ss = <<>> THEN <<>> ELSE EntitiesOfStmt(ss[1], chain) \o EntitiesOfSeq(Tail(ss), chain)

\* owner of the innermost enclosing statement that declares a function
EnclosingOwner(chain) ==
  LET owned == SelectSeq(chain, LAMBDA c : c.owner # Null)
  IN IF owned = <<>> THEN Null ELSE owned[Len(owned)].owner

C24_CycleMembersKeepSourceOrder ==
  (uOut.op \in TopLevelFixOps /\ FlatDistinct(uIn.stmts)) =>
    LET src == parseContent(uIn)
        out == parseContent(uOut.content)
        P == Paths(src)
    IN \A e \in P :
         (e[1] # e[2] /\ <<e[2], e[1]>> \in P /\ PosOf(src, e[1]) < PosOf(src, e[2])) =>
           PosOf(out, e[1]) < PosOf(out, e[2])

\* C25: topologicalSort terminates on every finite dependency graph, cyclic
\* or not, never throws, and returns each key of the dependency map exactly
\* once.
C25_TopologicalSortReturnsEachKeyOnce ==
  uOut.op = "topologicalSort" =>
    /\ Len(uOut.result) = Len(uOut.dependencies.keys)
    /\ \A k \in Range(uOut.dependencies.keys) : Count(uOut.result, k) = 1

C25_Witness ==
  /\ uOut.op = "topologicalSort"
  /\ uOut.dependencies.keys = <<"f1", "f2", "f3">>
  /\ uOut.dependencies.val["f1"] = <<"f3">>
  /\ uOut.dependencies.val["f2"] = <<"f1">>
  /\ uOut.dependencies.val["f3"] = <<"f2">>
  /\ uOut.result = <<"f2", "f3", "f1">>

\* the text after the fixes of the rules rs, each applied to a context parsed
\* from the text the previous one returned
RECURSIVE FixInSequence(_,_)
FixInSequence(rs, content) ==
  IF rs = <<>> THEN content
  ELSE FixInSequence(Tail(rs), RuleFix(Head(rs), buildRuleContext(parseContent(content))))

\* C26: in the rule pipeline, fix is invoked for exactly the enabled rules
\* whose analyze reported violations on the shared context built from the
\* original text, in registration order, and each fix works on a context
\* freshly parsed from the previous rule's output text.
C26_FixInvokedForRulesWithViolations ==
  uOut.op = "fixFileWithRules" =>
    LET shared == buildRuleContext(parseContent(uIn))
        reported == SelectSeq(uOut.enabledRules, LAMBDA r : RuleAnalyze(r, shared) # <<>>)
    IN /\ uOut.invoked = reported
       /\ uOut.content = FixInSequence(uOut.invoked, uIn)

\* the bodies of all function literals and function declarations of a
\* statement sequence, at every depth
RECURSIVE AllBodies(_)
AllBodies(ss) ==
  UNION {UNION {{ss[i].decls[k].body} \cup AllBodies(ss[i].decls[k].body) :
                  k \in {m \in DOMAIN ss[i].decls : ss[i].decls[m].init \in {"fn", "call"}}} :
           i \in DOMAIN ss}

\* a body with two function statements of different names, the later one
\* calling the earlier one and not called by it
OutOfCallerFirstOrder(body) ==
  \E i, j \in DOMAIN body :
    /\ i < j
    /\ extractStatementFunctionName(body[i]) # Null
    /\ extractStatementFunctionName(body[j]) # Null
    /\ extractStatementFunctionName(body[i]) # extractStatementFunctionName(body[j])
    /\ extractStatementFunctionName(body[i]) \in Range(allCallsOfStmt(body[j]))
    /\ extractStatementFunctionName(body[j]) \notin Range(allCallsOfStmt(body[i]))

\* no two function entities of the file share a name
DistinctEntityNames(file) ==
  LET fs == extractFunctions(file)
  IN \A i, j \in DOMAIN fs : fs[i].name = fs[j].name => i = j

\* C27: block-level reordering is applied at every nesting depth: any
\* function-like body, however deeply nested (including callbacks passed as
\* call arguments inside other functions or in expression statements), that
\* holds two or more function statements out of caller-first order is
\* reordered by the fixer, so no such body is left in the fixer's output
\* (files whose function entities have distinct names).
C27_EveryDepthIsReordered ==
  (uOut.op \in FixOps \ {"stepdownRule.fix"} /\ DistinctEntityNames(parseContent(uIn))) =>
    \A body \in AllBodies(parseContent(uOut.content)) : ~OutOfCallerFirstOrder(body)

\* C30: findNestedFunctionViolations reports each (parent function, nested
\* function) pair at most once, whatever the nesting depth of the pair
\* (files whose function entities have distinct names, so that a pair of
\* names is a pair of entities).
C30_NestedPairReportedOnce ==
  (uOut.op = "analyze" /\ DistinctEntityNames(parseContent(uIn))) =>
    \A r \in {uOut.analysis, uOut.ruleAnalysis} :
      \A i, j \in DOMAIN r.nestedFunctionViolations :
        r.nestedFunctionViolations[i] = r.nestedFunctionViolations[j] => i = j

\* C28: neither analyze nor fix of a rule mutates the context it receives:
\* after stepdownRule.fix (or fixParsedFile with an analysis result) returns,
\* the dependency graph it was given has the same keys and the same edges as
\* before the call.
C28_FixLeavesDependencyGraphIntact ==
  uOut.op \in {"stepdownRule.fix", "fixParsedFile", "nestedRule.fix"} =>
    LET given == buildRuleContext(parseContent(uIn)).dependencyGraph
    IN /\ uOut.dependencies.keys = given.keys
       /\ \A k \in Range(given.keys) : uOut.dependencies.val[k] = given.val[k]

\* C29: in a fixing run each file is read once, so the fix step operates on
\* exactly the text, and the dependency graph, that the analysis step was
\* computed from, under any interleaving with a concurrent external write to
\* the file.
C29_FixOperatesOnAnalysedText ==
  \A i \in DOMAIN fixResults :
    fixResults[i].originalContent # EmptyText =>
      /\ fixResults[i].originalContent = parsedTexts[i]
      /\ buildRuleContext(parseContent(fixResults[i].originalContent)).dependencyGraph
           = buildRuleContext(parseContent(parsedTexts[i])).dependencyGraph

====
